---- MODULE Spec2Model ----
(***************************************************************************)
(* Model of SOPAnalyzer (src/sop_analyzer.py): the container reader, the   *)
(* adaptive decompressor, the payload parser and the record aggregators.   *)
(*                                                                         *)
(* Bytes are the integers 0..255 and byte strings are sequences of them.   *)
(* zlib.decompress is modelled on the byte level for the part of RFC 1951  *)
(* that needs no Huffman tables: stored blocks (BTYPE 00) with their       *)
(* LEN/NLEN check, the reserved block type (BTYPE 11), the RFC 1950 header *)
(* check and Adler-32 trailer, and the RFC 1952 CRC-32/ISIZE trailer.  A   *)
(* Huffman-coded block (BTYPE 01 or 10) is reported as undecodable, but    *)
(* for the two-byte encoding of the empty stream.                          *)
(* json.loads is modelled on a text whose string and literal lexemes are   *)
(* one byte each (see StrOf and LitOf).                                    *)
(***************************************************************************)
EXTENDS Integers, Sequences, FiniteSets, TLC

(***************************************************************************)
(* Byte arithmetic                                                         *)
(***************************************************************************)
RECURSIVE XorByte(_, _)
XorByte(a, b) ==
    IF a = 0 THEN b
    ELSE IF b = 0 THEN a
    ELSE (((a % 2) + (b % 2)) % 2) + (2 * XorByte(a \div 2, b \div 2))

\* a 32-bit word is kept as four bytes, least significant first
Xor32(x, y) == [i \in 1..4 |-> XorByte(x[i], y[i])]

Shr32(x) == [i \in 1..4 |-> (x[i] \div 2) + (IF i < 4 THEN 128 * (x[i + 1] % 2) ELSE 0)]

\* the reflected CRC-32 polynomial EDB88320, least significant byte first
CrcPoly == <<32, 131, 184, 237>>

RECURSIVE CrcBits(_, _)
CrcBits(c, n) ==
    IF n = 0 THEN c
    ELSE CrcBits(IF c[1] % 2 = 1 THEN Xor32(Shr32(c), CrcPoly) ELSE Shr32(c), n - 1)

RECURSIVE CrcRun(_, _, _)
CrcRun(c, data, i) ==
    IF i > Len(data) THEN c
    ELSE CrcRun(CrcBits(Xor32(c, <<data[i], 0, 0, 0>>), 8), data, i + 1)

\* zlib's crc32 of data, as the four bytes of the gzip trailer (little endian)
Crc32(data) == Xor32(CrcRun(<<255, 255, 255, 255>>, data, 1), <<255, 255, 255, 255>>)

\* the gzip ISIZE field: the length modulo 2^32, little endian
ISize(data) ==
    LET n == Len(data) IN <<n % 256, (n \div 256) % 256, (n \div 65536) % 256, 0>>

\* the sum, modulo 65521, of weight * byte over data[lo..hi], where the weight
\* of the byte at i is 1 (weighted = FALSE) or the number of bytes from i to
\* the end of data
RECURSIVE ByteSum(_, _, _, _)
ByteSum(data, lo, hi, weighted) ==
    IF lo > hi THEN 0
    ELSE IF lo = hi
         THEN (data[lo] * (IF weighted THEN Len(data) - lo + 1 ELSE 1)) % 65521
    ELSE (ByteSum(data, lo, (lo + hi) \div 2, weighted)
          + ByteSum(data, ((lo + hi) \div 2) + 1, hi, weighted)) % 65521

\* zlib's adler32 of data, as the four bytes of the zlib trailer (big endian):
\* a is 1 plus the sum of the bytes, b the sum of the values a takes after each
\* byte, both modulo 65521
Adler32(data) ==
    LET Word(a, b) == <<b \div 256, b % 256, a \div 256, a % 256>>
    IN  Word((1 + ByteSum(data, 1, Len(data), FALSE)) % 65521,
             (Len(data) + ByteSum(data, 1, Len(data), TRUE)) % 65521)

Drop(s, n) == IF n >= Len(s) THEN <<>> ELSE SubSeq(s, n + 1, Len(s))

Take(s, n) == IF n >= Len(s) THEN s ELSE SubSeq(s, 1, n)

(***************************************************************************)
(* zlib.decompress                                                         *)
(***************************************************************************)
Ok(out, used) == [ok |-> TRUE, out |-> out, used |-> used, err |-> ""]

Err(msg) == [ok |-> FALSE, out |-> <<>>, used |-> 0, err |-> msg]

\* inflate of a raw deflate stream that starts at data[pos]; used is the index
\* of the last byte of the stream
RECURSIVE Inflate(_, _, _)
Inflate(data, pos, acc) ==
    IF pos > Len(data) THEN Err("incomplete or truncated stream")
    ELSE LET bfinal == data[pos] % 2
             btype  == (data[pos] \div 2) % 4
         IN  IF btype = 3 THEN Err("invalid block type")
             ELSE IF data[pos] = 3
                  \* a final fixed-Huffman block that holds only the end-of-block
                  \* code (seven zero bits): the encoding of the empty stream
                  THEN IF pos + 1 > Len(data) THEN Err("incomplete or truncated stream")
                       ELSE IF data[pos + 1] % 4 = 0 THEN Ok(acc, pos + 1)
                       ELSE Err("invalid distance code")
             ELSE IF btype # 0 THEN Err("invalid code lengths set")
             ELSE IF pos + 4 > Len(data) THEN Err("incomplete or truncated stream")
             ELSE LET len  == data[pos + 1] + (256 * data[pos + 2])
                      nlen == data[pos + 3] + (256 * data[pos + 4])
                  IN  IF len + nlen # 65535 THEN Err("invalid stored block lengths")
                      ELSE IF pos + 4 + len > Len(data)
                           THEN Err("incomplete or truncated stream")
                      ELSE LET acc2 == acc \o SubSeq(data, pos + 5, pos + 4 + len)
                           IN  IF bfinal = 1 THEN Ok(acc2, pos + 4 + len)
                               ELSE Inflate(data, pos + 5 + len, acc2)

\* wbits = -15: a raw stream; what follows the stream is ignored
InflateRaw(data) == Inflate(data, 1, <<>>)

\* wbits = 15: the two-byte zlib header, the stream, the Adler-32 of the output
InflateZlib(data) ==
    IF Len(data) < 2 THEN Err("incomplete or truncated stream")
    ELSE IF ((data[1] * 256) + data[2]) % 31 # 0 THEN Err("incorrect header check")
    ELSE IF data[1] % 16 # 8 THEN Err("unknown compression method")
    ELSE IF data[1] \div 16 > 7 THEN Err("invalid window size")
    ELSE IF (data[2] \div 32) % 2 = 1 THEN Err("need dictionary")
    ELSE LET Trailer(r) ==
                 IF ~r.ok THEN r
                 ELSE IF r.used + 4 > Len(data) THEN Err("incomplete or truncated stream")
                 ELSE IF SubSeq(data, r.used + 1, r.used + 4) # Adler32(r.out)
                      THEN Err("incorrect data check")
                 ELSE Ok(r.out, r.used + 4)
         IN  Trailer(Inflate(data, 3, <<>>))

\* a gzip member whose header has no optional field (FLG = 0)
InflateGzip(data) ==
    IF Len(data) < 10 THEN Err("incomplete or truncated stream")
    ELSE IF data[3] # 8 THEN Err("unknown compression method")
    ELSE IF data[4] # 0 THEN Err("unknown header flags set")
    ELSE LET Trailer(r) ==
                 IF ~r.ok THEN r
                 ELSE IF r.used + 8 > Len(data) THEN Err("incomplete or truncated stream")
                 ELSE IF SubSeq(data, r.used + 1, r.used + 4) # Crc32(r.out)
                      THEN Err("incorrect data check")
                 ELSE IF SubSeq(data, r.used + 5, r.used + 8) # ISize(r.out)
                      THEN Err("incorrect length check")
                 ELSE Ok(r.out, r.used + 8)
         IN  Trailer(Inflate(data, 11, <<>>))

\* wbits = 15 + 32: gzip when the data starts with the gzip magic, else zlib
InflateAuto(data) ==
    IF Len(data) >= 2 /\ data[1] = 31 /\ data[2] = 139 THEN InflateGzip(data)
    ELSE InflateZlib(data)

(***************************************************************************)
(* The decompression strategies                                            *)
(***************************************************************************)
_try_raw_deflate(data) == InflateRaw(data)

_try_zlib_deflate(data) == InflateZlib(data)

gzip_header == <<31, 139, 8, 0, 0, 0, 0, 0, 2, 255>>

gzip_trailer == <<0, 0, 0, 0, 0, 0, 0, 0>>

_try_gzip_format(data) == InflateAuto(gzip_header \o data \o gzip_trailer)

headers_to_try == << <<>>, <<120, 156>>, <<120, 1>>, <<120, 218>> >>

Min(a, b) == IF a < b THEN a ELSE b

\* the second loop with range(min(10, len(data)) + 1)
RECURSIVE SkipLoop_one_more(_, _)
SkipLoop_one_more(data, i) ==
    IF i > Min(10, Len(data)) THEN Err("all header methods failed")
    ELSE LET Try(r) == IF r.ok THEN r ELSE SkipLoop_one_more(data, i + 1)
         IN  Try(InflateRaw(Drop(data, i)))

\* the second loop of _try_with_headers: raw inflate of data[i:], i = 0, 1, ...
RECURSIVE SkipLoop(_, _)
SkipLoop(data, i) ==
    IF i >= Min(10, Len(data)) THEN Err("all header methods failed")
    ELSE LET Try(r) == IF r.ok THEN r ELSE SkipLoop(data, i + 1)
         IN  Try(InflateRaw(Drop(data, i)))

\* the first loop of _try_with_headers: zlib inflate of header + data
RECURSIVE HeaderLoop(_, _)
HeaderLoop(data, h) ==
    IF h > Len(headers_to_try) THEN SkipLoop(data, 0)
    ELSE LET Try(r) == IF r.ok THEN r ELSE HeaderLoop(data, h + 1)
         IN  Try(InflateZlib(headers_to_try[h] \o data))

_try_with_headers(data) == HeaderLoop(data, 1)

\* the list with its first two methods exchanged
methods_zlib_first ==
    <<"_try_zlib_deflate", "_try_raw_deflate", "_try_gzip_format", "_try_with_headers">>

methods == <<"_try_raw_deflate", "_try_zlib_deflate", "_try_gzip_format", "_try_with_headers">>

CallMethod(method, data) ==
    CASE method = "_try_raw_deflate"  -> _try_raw_deflate(data)
      [] method = "_try_zlib_deflate" -> _try_zlib_deflate(data)
      [] method = "_try_gzip_format"  -> _try_gzip_format(data)
      [] method = "_try_with_headers" -> _try_with_headers(data)

\* a Python exception: its type and its args, which hold the message and
\* nothing else in every raise of the code
Exc(type, msg) == [type |-> type, args |-> <<msg>>]

NoExc == [type |-> "", args |-> <<>>]

\* one line of standard output written by _decompress_data
PrintOk(method) == [mark |-> "success", method |-> method, reason |-> ""]

PrintFail(method, e) == [mark |-> "failed", method |-> method, reason |-> e]

\* the for loop of _decompress_data from methods[i] on; printed collects the
\* lines written so far
RECURSIVE DecompressLoop(_, _, _)
DecompressLoop(compressed_data, i, printed) ==
    IF i > Len(methods)
    THEN [ok |-> FALSE, out |-> <<>>, printed |-> printed,
          exc |-> Exc("ValueError", "could not decompress the data with any method")]
    ELSE LET Try(r) ==
                 IF r.ok
                 THEN [ok |-> TRUE, out |-> r.out,
                       printed |-> Append(printed, PrintOk(methods[i])), exc |-> NoExc]
                 ELSE DecompressLoop(compressed_data, i + 1,
                                     Append(printed, PrintFail(methods[i], r.err)))
         IN  Try(CallMethod(methods[i], compressed_data))

_decompress_data(compressed_data) == DecompressLoop(compressed_data, 1, <<>>)

(***************************************************************************)
(* Python values, bytes.decode('utf-8') and json.loads                     *)
(*                                                                         *)
(* A value is a record [t, k, s, items]: t is its type, s the string form  *)
(* of a scalar, items the elements of a list or the members of a dict in   *)
(* insertion order, and k the key under which a dict member is stored.     *)
(* chars holds the UTF-8 bytes of a string that the text gives in quotes.  *)
(***************************************************************************)
Scalar(t, s) == [t |-> t, k |-> "", s |-> s, items |-> <<>>, chars |-> <<>>]

None == Scalar("NoneType", "None")

PyStr(s) == Scalar("str", s)

PyTrue == Scalar("bool", "True")

PyFalse == Scalar("bool", "False")

PyInt7 == Scalar("int", "7")

\* a string given by its bytes
PyQuoted(chars) == [t |-> "str", k |-> "", s |-> "", items |-> <<>>, chars |-> chars]

PyList(items) == [t |-> "list", k |-> "", s |-> "", items |-> items, chars |-> <<>>]

PyDict(items) == [t |-> "dict", k |-> "", s |-> "", items |-> items, chars |-> <<>>]

Member(key, v) == [v EXCEPT !.k = key]

Unkeyed(v) == [v EXCEPT !.k = ""]

HasKey(d, key) == \E i \in 1..Len(d.items) : d.items[i].k = key

KeyIndex(d, key) == CHOOSE i \in 1..Len(d.items) : d.items[i].k = key

\* dict.get(key, default)
Get(d, key, default) ==
    IF HasKey(d, key) THEN Unkeyed(d.items[KeyIndex(d, key)]) ELSE default

\* d[key] = v: a key that is present keeps its place
SetItem(d, key, v) ==
    IF HasKey(d, key)
    THEN [d EXCEPT !.items[KeyIndex(d, key)] = Member(key, v)]
    ELSE [d EXCEPT !.items = Append(@, Member(key, v))]

\* the string lexemes of the text, one byte each (the letter that stands for
\* the quoted string)
StrOf ==
    (114 :> "records") @@ (116 :> "table_name") @@ (97 :> "action")
    @@ (115 :> "is_strong_overwrite") @@ (110 :> "name") @@ (117 :> "users")
    @@ (111 :> "orders") @@ (112 :> "products") @@ (105 :> "insert")
    @@ (100 :> "delete") @@ (107 :> "unknown") @@ (113 :> "true")
    @@ (85 :> "update") @@ (103 :> "test_package")

\* the literal lexemes: T, F, N and the number 7
LitOf == (84 :> PyTrue) @@ (70 :> PyFalse) @@ (78 :> None) @@ (55 :> PyInt7)

\* bytes.decode('utf-8') of a text of characters of one or two bytes: a byte
\* of 128 or more is the first byte (194..223) of a character whose second
\* byte (128..191) follows, or that second byte
Utf8Ok(data) ==
    \A i \in 1..Len(data) :
        \/ data[i] < 128
        \/ /\ data[i] \in 194..223
           /\ i < Len(data)
           /\ data[i + 1] \in 128..191
        \/ /\ data[i] \in 128..191
           /\ i > 1
           /\ data[i - 1] \in 194..223

POk(v, pos) == [ok |-> TRUE, val |-> v, pos |-> pos]

PErr == [ok |-> FALSE, val |-> None, pos |-> 0]

\* a string in quotes that opens at text[p]: it runs to the next quote, and
\* holds neither a control character nor a backslash (escapes are not modelled)
ParseQuoted(text, p) ==
    LET Close(quotes) ==
            IF quotes = {} THEN PErr
            ELSE LET Upto(q) ==
                         IF \E j \in (p + 1)..(q - 1) : text[j] < 32 \/ text[j] = 92
                         THEN PErr
                         ELSE POk(PyQuoted(SubSeq(text, p + 1, q - 1)), q + 1)
                 IN  Upto(CHOOSE q \in quotes : \A j \in quotes : q <= j)
    IN  Close({q \in (p + 1)..Len(text) : text[q] = 34})

RECURSIVE ParseValue(_, _)
RECURSIVE ParseItems(_, _, _)
RECURSIVE ParseMembers(_, _, _)

\* a value that starts at text[p]; pos is the index after it
ParseValue(text, p) ==
    IF p > Len(text) THEN PErr
    ELSE IF text[p] \in DOMAIN StrOf THEN POk(PyStr(StrOf[text[p]]), p + 1)
    ELSE IF text[p] \in DOMAIN LitOf THEN POk(LitOf[text[p]], p + 1)
    ELSE IF text[p] = 34 THEN ParseQuoted(text, p)
    ELSE IF text[p] = 91
         THEN IF p + 1 <= Len(text) /\ text[p + 1] = 93 THEN POk(PyList(<<>>), p + 2)
              ELSE ParseItems(text, p + 1, <<>>)
    ELSE IF text[p] = 123
         THEN IF p + 1 <= Len(text) /\ text[p + 1] = 125 THEN POk(PyDict(<<>>), p + 2)
              ELSE ParseMembers(text, p + 1, PyDict(<<>>))
    ELSE PErr

\* the elements of a list after '[' or ','
ParseItems(text, p, acc) ==
    LET After(v) ==
            IF ~v.ok \/ v.pos > Len(text) THEN PErr
            ELSE IF text[v.pos] = 44 THEN ParseItems(text, v.pos + 1, Append(acc, v.val))
            ELSE IF text[v.pos] = 93 THEN POk(PyList(Append(acc, v.val)), v.pos + 1)
            ELSE PErr
    IN  After(ParseValue(text, p))

\* the members of an object after '{' or ','
ParseMembers(text, p, acc) ==
    IF p + 1 > Len(text) \/ text[p] \notin DOMAIN StrOf \/ text[p + 1] # 58 THEN PErr
    ELSE LET After(v) ==
                 IF ~v.ok \/ v.pos > Len(text) THEN PErr
                 ELSE IF text[v.pos] = 44
                      THEN ParseMembers(text, v.pos + 1, SetItem(acc, StrOf[text[p]], v.val))
                 ELSE IF text[v.pos] = 125
                      THEN POk(SetItem(acc, StrOf[text[p]], v.val), v.pos + 1)
                 ELSE PErr
         IN  After(ParseValue(text, p + 2))

\* json.loads: one value and nothing after it
json_loads(text) ==
    LET End(v) == IF v.ok /\ v.pos = Len(text) + 1 THEN v ELSE PErr
    IN  End(ParseValue(text, 1))

(***************************************************************************)
(* The file at sop_file_path                                               *)
(*                                                                         *)
(* kind "missing": no file; "bytes": a file that is no archive; "zip": an  *)
(* archive with its entries in listing order.  An entry has a name (a      *)
(* sequence of characters), its stored bytes, and crc_ok: whether reading  *)
(* it passes the archive's CRC check.                                      *)
(***************************************************************************)
NoFile == [kind |-> "missing", entries |-> <<>>]

NotZip == [kind |-> "bytes", entries |-> <<>>]

Zip(entries) == [kind |-> "zip", entries |-> entries]

Entry(name, data) == [name |-> name, data |-> data, crc_ok |-> TRUE]

\* a test that leaves out the first character of the suffix
endswith_tail(name, suffix) ==
    /\ Len(name) >= Len(suffix) - 1
    /\ SubSeq(name, Len(name) - Len(suffix) + 2, Len(name)) = Tail(suffix)

\* str.endswith
endswith(name, suffix) ==
    /\ Len(name) >= Len(suffix)
    /\ SubSeq(name, Len(name) - Len(suffix) + 1, Len(name)) = suffix

data_suffix == <<".", "d", "a", "t", "a">>

\* [f for f in sop_zip.namelist() if f.endswith('.data')], as entry indices
data_files(f) == SelectSeq([i \in 1..Len(f.entries) |-> i],
                           LAMBDA i : endswith(f.entries[i].name, data_suffix))

(***************************************************************************)
(* load_data                                                               *)
(***************************************************************************)
\* how a call of load_data ends: the value returned or the exception raised,
\* self._data afterwards (cache), the lines printed, what was done to the file
\* (events), and the locals compressed_data and decompressed_data (empty when
\* never assigned).  file and hit record what the call was made on: the file
\* as it was, and whether self._data was set
Returned(v, cache, printed, ev) ==
    [kind |-> "return", val |-> v, exc |-> NoExc, cache |-> cache,
     printed |-> printed, events |-> ev,
     compressed_data |-> <<>>, decompressed_data |-> <<>>,
     file |-> NoFile, hit |-> FALSE]

Raised(e, cache, printed, ev) ==
    [kind |-> "raise", val |-> None, exc |-> e, cache |-> cache,
     printed |-> printed, events |-> ev,
     compressed_data |-> <<>>, decompressed_data |-> <<>>,
     file |-> NoFile, hit |-> FALSE]

\* no call of load_data yet
NoLoad == Returned(None, None, <<>>, <<>>)

WithLocals(r, compressed_data, decompressed_data) ==
    [r EXCEPT !.compressed_data = compressed_data,
              !.decompressed_data = decompressed_data]

\* the exception that leaves load_data when zipfile.BadZipFile is raised inside
\* the try block, were it not caught
BadZipFile_uncaught == Exc("BadZipFile", "File is not a zip file")

\* except zipfile.BadZipFile: raise ValueError(...)
BadZipFile_handler == Exc("ValueError", "invalid ZIP archive")

\* except json.JSONDecodeError as e: raise ValueError(...)
JSONDecodeError_handler == Exc("ValueError", "JSON parse error")

\* raise ValueError(...) when data_files is empty
no_data_file == Exc("ValueError", "no data file (.data) found in the archive")

\* the statements after the entry has been read, were the archive closed by a
\* call of close() as the last statement before the return
DecodePayload_close_at_end(compressed_data, cache, ev) ==
    LET Parsed(d, j) ==
            IF ~j.ok THEN Raised(JSONDecodeError_handler, cache, d.printed, ev)
            ELSE Returned(j.val, j.val, d.printed, Append(ev, "close"))
        Decompressed(d) ==
            IF ~d.ok THEN Raised(d.exc, cache, d.printed, ev)
            ELSE IF ~Utf8Ok(d.out)
                 THEN Raised(Exc("UnicodeDecodeError", "invalid start byte"),
                             cache, d.printed, ev)
            ELSE Parsed(d, json_loads(d.out))
        Locals(d, r) == WithLocals(r, compressed_data, d.out)
        Run(d) == Locals(d, Decompressed(d))
    IN  Run(_decompress_data(compressed_data))

\* the statements after the entry has been read, were self._data assigned the
\* decoded text before json.loads is called on it
DecodePayload_cache_text(compressed_data, cache, ev) ==
    LET Parsed(d, j) ==
            IF ~j.ok
            THEN Raised(JSONDecodeError_handler, PyQuoted(d.out), d.printed,
                        Append(ev, "close"))
            ELSE Returned(j.val, j.val, d.printed, Append(ev, "close"))
        Decompressed(d) ==
            IF ~d.ok THEN Raised(d.exc, cache, d.printed, Append(ev, "close"))
            ELSE IF ~Utf8Ok(d.out)
                 THEN Raised(Exc("UnicodeDecodeError", "invalid start byte"),
                             cache, d.printed, Append(ev, "close"))
            ELSE Parsed(d, json_loads(d.out))
        Locals(d, r) == WithLocals(r, compressed_data, d.out)
        Run(d) == Locals(d, Decompressed(d))
    IN  Run(_decompress_data(compressed_data))

\* the statements of load_data after the entry has been read
DecodePayload(compressed_data, cache, ev) ==
    LET Parsed(d, j) ==
            IF ~j.ok
            THEN Raised(JSONDecodeError_handler, cache, d.printed, Append(ev, "close"))
            ELSE Returned(j.val, j.val, d.printed, Append(ev, "close"))
        Decompressed(d) ==
            IF ~d.ok THEN Raised(d.exc, cache, d.printed, Append(ev, "close"))
            ELSE IF ~Utf8Ok(d.out)
                 THEN Raised(Exc("UnicodeDecodeError", "invalid start byte"),
                             cache, d.printed, Append(ev, "close"))
            ELSE Parsed(d, json_loads(d.out))
        Locals(d, r) == WithLocals(r, compressed_data, d.out)
        Run(d) == Locals(d, Decompressed(d))
    IN  Run(_decompress_data(compressed_data))

\* load_data on file f with self._data = cache.  events lists what the call did
\* to the file: "exists", "ZipFile" (the constructor opens the file), "namelist",
\* "read" (the entry is opened, read and closed), "close" (the handle on the
\* file is released: the with block is left, or the constructor gives up on a
\* file that is no archive)
load_data(f, cache) ==
    LET Read(e) ==
            IF ~e.crc_ok
            THEN Raised(BadZipFile_handler, cache, <<>>,
                        <<"exists", "ZipFile", "namelist", "read", "close">>)
            ELSE DecodePayload(e.data, cache, <<"exists", "ZipFile", "namelist", "read">>)
        Called(r) == [r EXCEPT !.file = f, !.hit = (cache # None)]
    IN  Called(
            IF cache # None THEN Returned(cache, cache, <<>>, <<>>)
            ELSE IF f.kind = "missing"
                 THEN Raised(Exc("FileNotFoundError", "SOP file not found"),
                             cache, <<>>, <<"exists">>)
            ELSE IF f.kind # "zip"
                 THEN Raised(BadZipFile_handler, cache, <<>>,
                             <<"exists", "ZipFile", "close">>)
            ELSE IF data_files(f) = <<>>
                 THEN Raised(no_data_file, cache, <<>>,
                             <<"exists", "ZipFile", "namelist", "close">>)
            ELSE Read(f.entries[data_files(f)[1]]))

(***************************************************************************)
(* The aggregators                                                         *)
(***************************************************************************)
AttributeError == Exc("AttributeError", "object has no attribute 'get'")

TypeError == Exc("TypeError", "unhashable or not iterable")

Hashable(v) == v.t \notin {"list", "dict"}

\* what "for record in records" yields; ok is FALSE when records is not iterable
Iterate(records) ==
    IF records.t = "list" THEN [ok |-> TRUE, recs |-> records.items]
    ELSE IF records.t = "dict"
         THEN [ok |-> TRUE, recs |-> [i \in 1..Len(records.items) |-> PyStr(records.items[i].k)]]
    ELSE IF records.t = "str" THEN [ok |-> TRUE, recs |-> <<PyStr("c")>>]
    ELSE [ok |-> FALSE, recs |-> <<>>]

\* a counter: a dict from values to counts, kept in insertion order
CountHas(c, key) == \E i \in 1..Len(c) : c[i].key = key

CountGet(c, key) == IF CountHas(c, key)
                    THEN c[CHOOSE i \in 1..Len(c) : c[i].key = key].count ELSE 0

\* c[key] = 1: the count so far is dropped
CountIncr_reset(c, key) ==
    IF CountHas(c, key)
    THEN [i \in 1..Len(c) |-> IF c[i].key = key THEN [c[i] EXCEPT !.count = 1] ELSE c[i]]
    ELSE Append(c, [key |-> key, count |-> 1])

\* c[key] = c.get(key, 0) + 1
CountIncr(c, key) ==
    IF CountHas(c, key)
    THEN [i \in 1..Len(c) |-> IF c[i].key = key THEN [c[i] EXCEPT !.count = @ + 1] ELSE c[i]]
    ELSE Append(c, [key |-> key, count |-> 1])

RECURSIVE CountSum(_)
CountSum(c) == IF c = <<>> THEN 0 ELSE c[1].count + CountSum(Tail(c))

RecordStats(total, deletes, strong_overwrites) ==
    [total |-> total, deletes |-> deletes, strong_overwrites |-> strong_overwrites]

TableInfo(name, record_count, actions) ==
    [name |-> name, record_count |-> record_count, actions |-> actions]

\* the loop with "if record.get('is_strong_overwrite'):", a test of truthiness
RECURSIVE RecordsLoop_truthy(_, _, _)
RecordsLoop_truthy(recs, i, stats) ==
    IF i > Len(recs) THEN [ok |-> TRUE, exc |-> NoExc, stats |-> stats]
    ELSE IF recs[i].t # "dict" THEN [ok |-> FALSE, exc |-> AttributeError, stats |-> stats]
    ELSE RecordsLoop_truthy(recs, i + 1,
             RecordStats(stats.total,
                 stats.deletes
                     + (IF Get(recs[i], "action", None) = PyStr("delete") THEN 1 ELSE 0),
                 stats.strong_overwrites
                     + (IF Get(recs[i], "is_strong_overwrite", None) \notin {None, PyFalse}
                        THEN 1 ELSE 0)))

\* the loop of analyze_records
RECURSIVE RecordsLoop(_, _, _)
RecordsLoop(recs, i, stats) ==
    IF i > Len(recs) THEN [ok |-> TRUE, exc |-> NoExc, stats |-> stats]
    ELSE IF recs[i].t # "dict" THEN [ok |-> FALSE, exc |-> AttributeError, stats |-> stats]
    ELSE RecordsLoop(recs, i + 1,
             RecordStats(stats.total,
                 stats.deletes
                     + (IF Get(recs[i], "action", None) = PyStr("delete") THEN 1 ELSE 0),
                 stats.strong_overwrites
                     + (IF Get(recs[i], "is_strong_overwrite", None) = PyTrue
                        THEN 1 ELSE 0)))

\* the loop of analyze_tables; tables is the dict of the code, in insertion
\* order: a sequence of [name, count, actions]
TablesHas(tables, name) == \E i \in 1..Len(tables) : tables[i].name = name

\* the loop body with the increment of 'count' only where the table is new
TablesAdd_count_new(tables, name, action) ==
    LET Incr(t0, new) ==
            [i \in 1..Len(t0) |->
                IF t0[i].name = name
                THEN [t0[i] EXCEPT !.count = IF new THEN 1 ELSE @,
                                   !.actions = CountIncr(@, action)]
                ELSE t0[i]]
    IN  IF TablesHas(tables, name) THEN Incr(tables, FALSE)
        ELSE Incr(Append(tables, [name |-> name, count |-> 0, actions |-> <<>>]), TRUE)

TablesAdd(tables, name, action) ==
    LET Incr(t0) ==
            [i \in 1..Len(t0) |->
                IF t0[i].name = name
                THEN [t0[i] EXCEPT !.count = @ + 1, !.actions = CountIncr(@, action)]
                ELSE t0[i]]
    IN  Incr(IF TablesHas(tables, name) THEN tables
             ELSE Append(tables, [name |-> name, count |-> 0, actions |-> <<>>]))

RECURSIVE TablesLoop(_, _, _)
TablesLoop(recs, i, tables) ==
    IF i > Len(recs) THEN [ok |-> TRUE, exc |-> NoExc, tables |-> tables]
    ELSE IF recs[i].t # "dict" THEN [ok |-> FALSE, exc |-> AttributeError, tables |-> <<>>]
    ELSE LET Step(table_name, action) ==
                 IF ~Hashable(table_name) \/ ~Hashable(action)
                 THEN [ok |-> FALSE, exc |-> TypeError, tables |-> <<>>]
                 ELSE TablesLoop(recs, i + 1, TablesAdd(tables, table_name, action))
         IN  Step(Get(recs[i], "table_name", PyStr("unknown")),
                  Get(recs[i], "action", PyStr("unknown")))

\* sorted(..., key=count, reverse=True): a stable sort, so that tables with
\* equal counts keep their order
RECURSIVE InsertDesc_unstable(_, _)
InsertDesc_unstable(sorted, x) ==
    IF sorted = <<>> THEN <<x>>
    ELSE IF Head(sorted).count > x.count
         THEN <<Head(sorted)>> \o InsertDesc_unstable(Tail(sorted), x)
    ELSE <<x>> \o sorted

RECURSIVE InsertDesc(_, _)
InsertDesc(sorted, x) ==
    IF sorted = <<>> THEN <<x>>
    ELSE IF Head(sorted).count >= x.count THEN <<Head(sorted)>> \o InsertDesc(Tail(sorted), x)
    ELSE <<x>> \o sorted

RECURSIVE SortDesc(_, _, _)
SortDesc(tables, i, sorted) ==
    IF i > Len(tables) THEN sorted
    ELSE SortDesc(tables, i + 1, InsertDesc(sorted, tables[i]))

sorted_tables(tables) == SortDesc(tables, 1, <<>>)

\* the loop of get_actions_summary
RECURSIVE ActionsLoop(_, _, _)
ActionsLoop(recs, i, actions) ==
    IF i > Len(recs) THEN [ok |-> TRUE, exc |-> NoExc, actions |-> actions]
    ELSE IF recs[i].t # "dict" THEN [ok |-> FALSE, exc |-> AttributeError, actions |-> <<>>]
    ELSE LET Step(action) ==
                 IF ~Hashable(action)
                 THEN [ok |-> FALSE, exc |-> TypeError, actions |-> <<>>]
                 ELSE ActionsLoop(recs, i + 1, CountIncr(actions, action))
         IN  Step(Get(recs[i], "action", PyStr("unknown")))

(***************************************************************************)
(* The public methods: each calls load_data first                          *)
(***************************************************************************)
NoMeta == [name |-> None, pack_application_id |-> None, timestamp |-> None,
           version |-> None]

NoStats == RecordStats(0, 0, 0)

\* the outcome of a call: what its call of load_data did (load), how the call
\* ended (kind, exc), what it returned, and the lines it wrote (printed)
Outcome(op, l, kind, exc) ==
    [op |-> op, load |-> l, kind |-> kind, exc |-> exc, val |-> None,
     meta |-> NoMeta, stats |-> NoStats, tables |-> <<>>, actions |-> <<>>,
     printed |-> l.printed]

LoadFailed(op, l) == Outcome(op, l, "raise", l.exc)

\* load_data called from outside
call_load_data(f, cache) ==
    LET Body(l) == [Outcome("load_data", l, l.kind, l.exc) EXCEPT !.val = l.val]
    IN  Body(load_data(f, cache))

get_metadata(f, cache) ==
    LET Body(l) ==
            IF l.kind = "raise" THEN LoadFailed("get_metadata", l)
            ELSE IF l.val.t # "dict"
                 THEN Outcome("get_metadata", l, "raise", AttributeError)
            ELSE [Outcome("get_metadata", l, "return", NoExc) EXCEPT !.meta =
                    [name                |-> Get(l.val, "name", PyStr("Unknown")),
                     pack_application_id |-> Get(l.val, "pack_application_id",
                                                 PyStr("Unknown")),
                     timestamp           |-> Get(l.val, "timestamp", None),
                     version             |-> Get(l.val, "version", PyStr("Unknown"))]]
    IN  Body(load_data(f, cache))

analyze_records(f, cache) ==
    LET Done(l, r) ==
            IF ~r.ok THEN Outcome("analyze_records", l, "raise", r.exc)
            ELSE [Outcome("analyze_records", l, "return", NoExc) EXCEPT !.stats = r.stats]
        Loop(l, it) ==
            IF ~it.ok THEN Outcome("analyze_records", l, "raise", TypeError)
            ELSE Done(l, RecordsLoop(it.recs, 1, RecordStats(Len(it.recs), 0, 0)))
        Body(l) ==
            IF l.kind = "raise" THEN LoadFailed("analyze_records", l)
            ELSE IF l.val.t # "dict"
                 THEN Outcome("analyze_records", l, "raise", AttributeError)
            ELSE Loop(l, Iterate(Get(l.val, "records", PyList(<<>>))))
    IN  Body(load_data(f, cache))

analyze_tables(f, cache) ==
    LET Infos(s) == [i \in 1..Len(s) |-> TableInfo(s[i].name, s[i].count, s[i].actions)]
        Done(l, r) ==
            IF ~r.ok THEN Outcome("analyze_tables", l, "raise", r.exc)
            ELSE [Outcome("analyze_tables", l, "return", NoExc)
                     EXCEPT !.tables = Infos(sorted_tables(r.tables))]
        Loop(l, it) ==
            IF ~it.ok THEN Outcome("analyze_tables", l, "raise", TypeError)
            ELSE Done(l, TablesLoop(it.recs, 1, <<>>))
        Body(l) ==
            IF l.kind = "raise" THEN LoadFailed("analyze_tables", l)
            ELSE IF l.val.t # "dict"
                 THEN Outcome("analyze_tables", l, "raise", AttributeError)
            ELSE Loop(l, Iterate(Get(l.val, "records", PyList(<<>>))))
    IN  Body(load_data(f, cache))

get_actions_summary(f, cache) ==
    LET Done(l, r) ==
            IF ~r.ok THEN Outcome("get_actions_summary", l, "raise", r.exc)
            ELSE [Outcome("get_actions_summary", l, "return", NoExc)
                     EXCEPT !.actions = r.actions]
        Loop(l, it) ==
            IF ~it.ok THEN Outcome("get_actions_summary", l, "raise", TypeError)
            ELSE Done(l, ActionsLoop(it.recs, 1, <<>>))
        Body(l) ==
            IF l.kind = "raise" THEN LoadFailed("get_actions_summary", l)
            ELSE IF l.val.t # "dict"
                 THEN Outcome("get_actions_summary", l, "raise", AttributeError)
            ELSE Loop(l, Iterate(Get(l.val, "records", PyList(<<>>))))
    IN  Body(load_data(f, cache))

\* main() with --json: a run of the command line on file f, with an analyzer
\* of its own.  kind is "return" for exit status 0 and "exit" for sys.exit(1)
ReportLine == [mark |-> "report", method |-> "", reason |-> ""]

ErrorLine(msg) == [mark |-> "error", method |-> "", reason |-> msg]

DiagnosticLine == [mark |-> "diagnostic", method |-> "", reason |-> ""]

main_json(f) ==
    LET Failed(m, e) ==
            [Outcome("main", m.load, "exit", e) EXCEPT
                !.printed = m.load.printed \o <<ErrorLine(e.args[1]), DiagnosticLine>>]
        Report(m, r, t, a) ==
            IF r.kind = "raise" THEN Failed(m, r.exc)
            ELSE IF t.kind = "raise" THEN Failed(m, t.exc)
            ELSE IF a.kind = "raise" THEN Failed(m, a.exc)
            ELSE [Outcome("main", m.load, "return", NoExc) EXCEPT
                     !.meta = m.meta, !.stats = r.stats,
                     !.tables = t.tables, !.actions = a.actions,
                     !.printed = m.printed \o r.printed \o t.printed \o a.printed
                                 \o <<ReportLine>>]
        Body(m) ==
            IF m.kind = "raise" THEN Failed(m, m.exc)
            ELSE Report(m, analyze_records(f, m.load.cache),
                        analyze_tables(f, m.load.cache),
                        get_actions_summary(f, m.load.cache))
    IN  IF f.kind = "missing"
        THEN [Outcome("main", NoLoad, "exit", NoExc) EXCEPT
                 !.printed = <<ErrorLine("file not found")>>]
        ELSE Body(get_metadata(f, None))

(***************************************************************************)
(* The files the model draws                                               *)
(***************************************************************************)
\* most records of a document
MaxRecords == 3

\* longest arbitrary byte string stored as the data entry
MaxJunkLen == 2

ByteOfStr(s) == CHOOSE b \in DOMAIN StrOf : StrOf[b] = s

ByteOfLit(v) == CHOOSE b \in DOMAIN LitOf : LitOf[b] = v

\* json.dumps of the test fixtures, in the lexemes of json_loads
RECURSIVE dumps(_)
RECURSIVE dumps_items(_, _, _)
dumps(v) ==
    IF v.t = "list" THEN <<91>> \o dumps_items(v.items, 1, FALSE) \o <<93>>
    ELSE IF v.t = "dict" THEN <<123>> \o dumps_items(v.items, 1, TRUE) \o <<125>>
    ELSE IF v.t = "str" /\ v.chars # <<>> THEN <<34>> \o v.chars \o <<34>>
    ELSE IF v.t = "str" THEN <<ByteOfStr(v.s)>>
    ELSE <<ByteOfLit(Unkeyed(v))>>

dumps_items(items, i, keyed) ==
    IF i > Len(items) THEN <<>>
    ELSE (IF i > 1 THEN <<44>> ELSE <<>>)
         \o (IF keyed THEN <<ByteOfStr(items[i].k), 58>> ELSE <<>>)
         \o dumps(Unkeyed(items[i]))
         \o dumps_items(items, i + 1, keyed)

\* a raw deflate stream of one final stored block
deflate_stored(p) ==
    <<1, Len(p) % 256, Len(p) \div 256, 255 - (Len(p) % 256), 255 - (Len(p) \div 256)>> \o p

\* zlib.compress(p, zlib.Z_NO_COMPRESSION)
zlib_compress(p) == <<120, 1>> \o deflate_stored(p) \o Adler32(p)

\* a record with the given table_name and action; "" leaves the key out
Rec(table_name, action) ==
    PyDict((IF table_name = "" THEN <<>> ELSE <<Member("table_name", PyStr(table_name))>>)
           \o (IF action = "" THEN <<>> ELSE <<Member("action", PyStr(action))>>))

RecordChoices ==
    {Rec("users", "insert"), Rec("users", "delete"), Rec("orders", "insert"),
     Rec("orders", ""), Rec("", "")}

RecordLists == UNION {[1..n -> RecordChoices] : n \in 0..MaxRecords}

DocOf(records) == PyDict(<<Member("records", PyList(records))>>)

\* a record of the tests' sample data
SampleRec(table_name, action, is_strong_overwrite) ==
    PyDict(<<Member("table_name", PyStr(table_name)), Member("action", PyStr(action)),
             Member("is_strong_overwrite", is_strong_overwrite)>>)

\* the tests' sample data, without the metadata other than the name
sample_data ==
    PyDict(<<Member("name", PyStr("test_package")),
             Member("records",
                    PyList(<<SampleRec("users", "insert", PyFalse),
                             SampleRec("users", "delete", PyFalse),
                             SampleRec("products", "update", PyTrue),
                             SampleRec("orders", "insert", PyFalse)>>))>>)

\* the sample data with the records of the least often used table first
sample_data_reordered ==
    PyDict(<<Member("records",
                    PyList(<<SampleRec("orders", "insert", PyFalse),
                             SampleRec("users", "insert", PyFalse),
                             SampleRec("users", "delete", PyFalse),
                             SampleRec("products", "update", PyTrue)>>))>>)

\* records whose is_strong_overwrite is true, the string "true", a number,
\* false, and absent
overwrite_variants ==
    DocOf(<<SampleRec("users", "delete", PyTrue),
            SampleRec("users", "insert", PyStr("true")),
            SampleRec("orders", "delete", PyInt7),
            SampleRec("orders", "insert", PyFalse),
            Rec("users", "insert")>>)

\* a document whose text has 65535 - 257 bytes, so that zlib.compress without
\* compression stores it as one block: 78 01, 01, FE FE, 01 01, the text, the
\* Adler-32.  Read as a raw stream, 78 opens a stored block with LEN = 01 01
\* and NLEN = FE FE, a valid pair; the block ends after 255 bytes of the text,
\* whose next five bytes, the characters a, 1, A and a two-byte character,
\* read as the header of a final stored block with a valid LEN and NLEN
long_name_document ==
    PyDict(<<Member("name",
                    PyQuoted([j \in 1..(65535 - 257 - 6) |->
                                 CASE j = 252 -> 97
                                   [] j = 253 -> 49
                                   [] j = 254 -> 65
                                   [] j = 255 -> 206
                                   [] j = 256 -> 190
                                   [] OTHER -> 120]))>>)

\* documents: mappings at the top level
Documents ==
    {DocOf(rs) : rs \in RecordLists}
    \cup {sample_data, sample_data_reordered, overwrite_variants, long_name_document}
    \cup {PyDict(<<>>), PyDict(<<Member("name", PyStr("users"))>>),
          PyDict(<<Member("records", None)>>),
          PyDict(<<Member("records", PyList(<<PyInt7>>))>>),
          DocOf(<<PyDict(<<Member("table_name", PyList(<<>>))>>)>>),
          DocOf(<<PyDict(<<Member("table_name", PyStr("users")),
                           Member("is_strong_overwrite", PyTrue)>>),
                  PyDict(<<Member("action", PyStr("delete")),
                           Member("is_strong_overwrite", PyStr("true"))>>)>>)}

\* JSON values that are no mapping
NonMappings == {None, PyList(<<>>), PyList(<<PyDict(<<>>)>>), PyStr("users"), PyInt7,
                PyTrue, PyFalse}

\* texts that are no JSON value, the last one no UTF-8 either
BadTexts == {<<>>, <<123>>, <<123, 125, 125>>, <<91, 84, 44, 93>>, <<123, 125, 255>>}

Texts == {dumps(v) : v \in Documents \cup NonMappings} \cup BadTexts

SmallTexts == {dumps(PyDict(<<>>)), dumps(None), <<123>>, <<255>>}

JunkBytes == {0, 1, 3, 120, 255}

\* the bytes stored as the data entry
Payloads ==
    {zlib_compress(t) : t \in Texts}
    \cup {deflate_stored(t) : t \in SmallTexts}
    \cup {<<255, 254>> \o deflate_stored(t) : t \in SmallTexts}
    \cup {zlib_compress(t) \o <<0>> : t \in SmallTexts}
    \cup {Take(zlib_compress(t), Len(zlib_compress(t)) - 1) : t \in SmallTexts}
    \cup {<<0, 0, 0, 255, 255>> \o deflate_stored(t) : t \in SmallTexts}
    \cup {<<120, 156, 3, 0, 0, 0, 0, 1>>, <<31, 139>>}
    \cup {[i \in 1..n |-> 255] \o deflate_stored(t) : n \in {9, 10}, t \in SmallTexts}
    \cup UNION {[1..n -> JunkBytes] : n \in 0..MaxJunkLen}

name_data == <<"p", ".", "d", "a", "t", "a">>

name_other == <<"m", ".", "t", "x", "t">>

GoodPayload == zlib_compress(dumps(DocOf(<<Rec("users", "insert")>>)))

OtherPayload == zlib_compress(dumps(PyDict(<<>>)))

Files ==
    {NoFile, NotZip, Zip(<<>>)}
    \cup {Zip(<<Entry(name_data, p)>>) : p \in Payloads}
    \cup {Zip(<<Entry(name_other, GoodPayload)>>),
          Zip(<<Entry(<<"d", "a", "t", "a">>, GoodPayload)>>),
          Zip(<<Entry(name_data \o <<".", "b">>, GoodPayload)>>),
          Zip(<<Entry(data_suffix, GoodPayload)>>),
          Zip(<<Entry(name_other, GoodPayload), Entry(name_data, OtherPayload)>>),
          Zip(<<Entry(name_data, OtherPayload), Entry(<<"q">> \o data_suffix, GoodPayload)>>),
          Zip(<<[Entry(name_data, GoodPayload) EXCEPT !.crc_ok = FALSE]>>)}

\* what the file may become between two calls
LaterFiles ==
    {NoFile, NotZip, Zip(<<Entry(name_data, GoodPayload)>>),
     Zip(<<Entry(name_data, <<255>>)>>)}

(***************************************************************************)
(* The state machine                                                       *)
(***************************************************************************)
VARIABLES
    file,       \* the file at self.sop_file_path
    _data,      \* self._data
    stdout,     \* the lines the latest call wrote to standard output
    events,     \* what the latest call did to the file (see load_data)
    result      \* the outcome of the latest call

vars == <<file, _data, stdout, events, result>>

Init ==
    /\ file \in Files
    /\ _data = None
    /\ stdout = <<>>
    /\ events = <<>>
    /\ result = Outcome("__init__", NoLoad, "return", NoExc)

\* what a call of a method does to the analyzer and to standard output, given
\* its outcome in result'
Effects ==
    /\ _data' = result'.load.cache
    /\ stdout' = result'.printed
    /\ events' = result'.load.events
    /\ UNCHANGED file

LoadData ==
    /\ result' = call_load_data(file, _data)
    /\ Effects

GetMetadata ==
    /\ result' = get_metadata(file, _data)
    /\ Effects

AnalyzeRecords ==
    /\ result' = analyze_records(file, _data)
    /\ Effects

AnalyzeTables ==
    /\ result' = analyze_tables(file, _data)
    /\ Effects

GetActionsSummary ==
    /\ result' = get_actions_summary(file, _data)
    /\ Effects

\* a run of the command line: the analyzer of the model is not involved
MainJson ==
    /\ result' = main_json(file)
    /\ stdout' = result'.printed
    /\ events' = result'.load.events
    /\ UNCHANGED <<file, _data>>

\* the environment replaces or removes the file
ChangeFile ==
    /\ file' \in LaterFiles \ {file}
    /\ UNCHANGED <<_data, stdout, events, result>>

Next ==
    \/ LoadData
    \/ GetMetadata
    \/ AnalyzeRecords
    \/ AnalyzeTables
    \/ GetActionsSummary
    \/ MainJson
    \/ ChangeFile

Spec == Init /\ [][Next]_vars

(***************************************************************************)
(* The claims                                                              *)
(***************************************************************************)
\* the lines _decompress_data wrote in the latest call, one per strategy tried
Tried == result.load.printed

\* the bytes the latest call passed to _decompress_data
Input == result.load.compressed_data

\* the strategies in the order of the specification
OrderedStrategy(i, data) ==
    CASE i = 1 -> _try_raw_deflate(data)
      [] i = 2 -> _try_zlib_deflate(data)
      [] i = 3 -> _try_gzip_format(data)
      [] i = 4 -> _try_with_headers(data)

OrderedName ==
    <<"_try_raw_deflate", "_try_zlib_deflate", "_try_gzip_format", "_try_with_headers">>

\* C1: whenever _decompress_data has run, the strategies it tried are a prefix
\* of raw inflate, zlib inflate, gzip wrap, header guess, in that order; every
\* one but the last tried fails on the input; the last one tried is either the
\* first that succeeds, and its output is what _decompress_data returned, or
\* the fourth, and it fails too.
C1_FirstSuccessInOrder ==
    Tried # <<>> =>
        /\ Len(Tried) <= 4
        /\ \A i \in 1..Len(Tried) : Tried[i].method = OrderedName[i]
        /\ \A i \in 1..(Len(Tried) - 1) :
              Tried[i].mark = "failed" /\ ~OrderedStrategy(i, Input).ok
        /\ \/ /\ Tried[Len(Tried)].mark = "success"
              /\ OrderedStrategy(Len(Tried), Input).ok
              /\ result.load.decompressed_data = OrderedStrategy(Len(Tried), Input).out
           \/ /\ Tried[Len(Tried)].mark = "failed"
              /\ Len(Tried) = 4
              /\ ~OrderedStrategy(4, Input).ok

\* C1 witness: the header guess succeeded after the three strategies before it
\* had failed
C1_Witness ==
    /\ Len(Tried) = 4
    /\ Tried[4].mark = "success"
    /\ \A i \in 1..3 : Tried[i].mark = "failed"
    /\ result.load.decompressed_data = _try_with_headers(Input).out

\* _decompress_data raised in the latest call
Exhausted == Tried # <<>> /\ Tried[Len(Tried)].mark = "failed"

\* C2 (the claim as written): _decompress_data fails exactly when all four
\* strategies fail on the input, no failure of a single strategy reaches the
\* caller, and the exception raised on exhaustion carries the failure reason
\* of each of the four strategies.
C2_ExhaustionCarriesReasons ==
    (result.op = "load_data" /\ Tried # <<>>) =>
        /\ Exhausted <=> \A i \in 1..4 : ~OrderedStrategy(i, Input).ok
        /\ result.exc.type # "zlib.error"
        /\ Exhausted =>
              /\ result.kind = "raise"
              /\ \A i \in 1..4 :
                    \E k \in 1..Len(result.exc.args) :
                        result.exc.args[k] = OrderedStrategy(i, Input).err

\* the methods of an analyzer that call load_data
Methods ==
    {"load_data", "get_metadata", "analyze_records", "analyze_tables",
     "get_actions_summary"}

\* the latest call was a method of the analyzer, and its call of load_data
\* found self._data unset
FreshLoad == result.op \in Methods /\ ~result.load.hit

\* C3 (the claim as written): once a call of load_data has succeeded, the next
\* call of a method on the same analyzer, whatever became of the file in
\* between, uses the value that call obtained and neither opens the container
\* nor decompresses nor parses.
C3_MemoizedAfterSuccess ==
    [][(/\ result.op \in Methods
        /\ result.load.kind = "return"
        /\ result'.op \in Methods
        /\ file' = file)
           => /\ result'.load.hit
              /\ result'.load.val = result.load.val
              /\ result'.load.events = <<>>
              /\ result'.load.printed = <<>>
              /\ result'.load.compressed_data = <<>>]_vars

\* C4 (the claim as written): a call of load_data that obtains a Document has
\* written nothing to standard output, and a successful run with --json has
\* written the report and nothing else.
C4_SilentSuccessPath ==
    /\ (result.op \in Methods /\ result.load.kind = "return") => stdout = <<>>
    /\ (result.op = "main" /\ result.kind = "return") => stdout = <<ReportLine>>

\* the name ends with ".data"
HasDataSuffix(name) ==
    /\ Len(name) >= 5
    /\ SubSeq(name, Len(name) - 4, Len(name)) = <<".", "d", "a", "t", "a">>

\* f is an archive none of whose entries has a name ending with ".data"
NoDataEntry(f) ==
    /\ f.kind = "zip"
    /\ \A i \in 1..Len(f.entries) : ~HasDataSuffix(f.entries[i].name)

\* the failure of load_data for a missing data entry
MissingDataEntryError == Exc("ValueError", "no data file (.data) found in the archive")

\* the failure of load_data for a file that is no archive
CorruptContainerError == Exc("ValueError", "invalid ZIP archive")

\* the failure of load_data when no strategy decompresses the entry
DecompressionExhaustedError ==
    Exc("ValueError", "could not decompress the data with any method")

\* the failure of load_data for a text that is no JSON
MalformedDocumentError == Exc("ValueError", "JSON parse error")

\* C5: a call of load_data that finds self._data unset and the file an archive
\* in which no entry name ends with ".data" raises the missing-data-entry
\* failure, and load_data raises that failure in no other case: the failure
\* differs from those raised for a corrupt container, for exhausted
\* decompression and for a malformed document, which are raised only for files
\* that are no archive or have a data entry.
C5_MissingDataEntryKind ==
    FreshLoad =>
        /\ NoDataEntry(result.load.file)
              => result.kind = "raise" /\ result.exc = MissingDataEntryError
        /\ result.exc = MissingDataEntryError => NoDataEntry(result.load.file)
        /\ result.exc \in {CorruptContainerError, DecompressionExhaustedError,
                           MalformedDocumentError}
              => ~NoDataEntry(result.load.file)

\* C5 witness: load_data failed for an archive that has entries, none of them
\* a data entry
C5_Witness ==
    /\ result.op = "load_data"
    /\ ~result.load.hit
    /\ NoDataEntry(result.load.file)
    /\ result.load.file.entries # <<>>
    /\ result.kind = "raise"
    /\ result.exc = MissingDataEntryError

\* C6: a call of load_data that finds self._data unset and the file existing
\* but no archive raises the corrupt-container failure, having neither listed
\* nor read an entry nor passed anything to _decompress_data.
C6_NonArchiveIsCorruptContainer ==
    (FreshLoad /\ result.load.file.kind = "bytes") =>
        /\ result.kind = "raise"
        /\ result.exc = CorruptContainerError
        /\ \A i \in 1..Len(result.load.events) :
              result.load.events[i] \notin {"namelist", "read"}
        /\ Tried = <<>>
        /\ Input = <<>>
        /\ result.load.cache = None

\* C6 witness: load_data failed on a file that is no archive
C6_Witness ==
    /\ result.op = "load_data"
    /\ ~result.load.hit
    /\ result.load.file.kind = "bytes"
    /\ result.kind = "raise"
    /\ result.exc = CorruptContainerError
    /\ result.load.events = <<"exists", "ZipFile", "close">>

\* C7 (the claim as written): load_data returns only mappings and stores only
\* mappings in self._data, so that no aggregator runs on a value that is no
\* mapping.
C7_NonMappingRejected ==
    /\ (result.op \in Methods /\ result.load.kind = "return")
          => result.load.val.t = "dict"
    /\ _data = None \/ _data.t = "dict"
    /\ result.exc # AttributeError

\* the value the latest call of load_data obtained is a Document: a mapping
\* whose "records", where present, is a list of mappings
IsDocument ==
    /\ result.load.kind = "return"
    /\ result.load.val.t = "dict"
    /\ HasKey(result.load.val, "records") =>
          /\ Get(result.load.val, "records", None).t = "list"
          /\ \A i \in 1..Len(Get(result.load.val, "records", None).items) :
                Get(result.load.val, "records", None).items[i].t = "dict"

\* the records of that Document
Records ==
    IF HasKey(result.load.val, "records")
    THEN Get(result.load.val, "records", None).items ELSE <<>>

\* the table and the action a record counts for
TableOf(record) ==
    IF HasKey(record, "table_name") THEN Get(record, "table_name", None)
    ELSE PyStr("unknown")

ActionOf(record) ==
    IF HasKey(record, "action") THEN Get(record, "action", None) ELSE PyStr("unknown")

\* the index of the first record of the table
FirstRecordOf(table) ==
    CHOOSE i \in 1..Len(Records) :
        /\ TableOf(Records[i]) = table
        /\ \A j \in 1..(i - 1) : TableOf(Records[j]) # table

\* the latest call was analyze_tables on a Document, and it returned
TablesReturned ==
    result.op = "analyze_tables" /\ result.kind = "return" /\ IsDocument

\* C8: the sequence analyze_tables returns for a Document is in descending
\* order of record_count, two tables of equal record_count are in the order in
\* which their names first occur in the records, and analyze_tables run again
\* on the same Document returns the same sequence.
C8_TablesSortedStable ==
    TablesReturned =>
        /\ \A a, b \in 1..Len(result.tables) :
              a < b =>
                 /\ result.tables[a].record_count >= result.tables[b].record_count
                 /\ result.tables[a].record_count = result.tables[b].record_count
                       => FirstRecordOf(result.tables[a].name)
                             < FirstRecordOf(result.tables[b].name)
        /\ analyze_tables(result.load.file, result.load.val).kind = "return"
        /\ analyze_tables(result.load.file, result.load.val).tables = result.tables

\* C8 witness: analyze_tables returned three tables, the first of them not
\* the table of the first record, the other two of equal record_count
C8_Witness ==
    /\ TablesReturned
    /\ Len(result.tables) = 3
    /\ result.tables[1].name # TableOf(Records[1])
    /\ result.tables[1].record_count > result.tables[2].record_count
    /\ result.tables[2].record_count = result.tables[3].record_count
    /\ result.tables[2].name = TableOf(Records[1])

RECURSIVE SumRecordCount(_)
SumRecordCount(tables) ==
    IF tables = <<>> THEN 0
    ELSE Head(tables).record_count + SumRecordCount(Tail(tables))

\* C9: the record_count values analyze_tables returns for a Document sum to
\* the number of its records; no two entries have the same name; the names are
\* exactly the table names of the records, "unknown" for a record without
\* table_name; and the record_count of an entry is the number of records of
\* its table.
C9_TableCountsPartition ==
    TablesReturned =>
        /\ SumRecordCount(result.tables) = Len(Records)
        /\ \A a, b \in 1..Len(result.tables) :
              result.tables[a].name = result.tables[b].name => a = b
        /\ {result.tables[a].name : a \in 1..Len(result.tables)}
              = {TableOf(Records[i]) : i \in 1..Len(Records)}
        /\ \A a \in 1..Len(result.tables) :
              result.tables[a].record_count
                 = Cardinality({i \in 1..Len(Records) :
                                   TableOf(Records[i]) = result.tables[a].name})

\* C9 witness: analyze_tables returned two entries for three records, one of
\* them the bucket "unknown" with two records
C9_Witness ==
    /\ TablesReturned
    /\ Len(Records) = 3
    /\ Len(result.tables) = 2
    /\ \E a \in 1..2 :
          /\ result.tables[a].name = PyStr("unknown")
          /\ result.tables[a].record_count = 2
    /\ \E i \in 1..3 : ~HasKey(Records[i], "table_name")

\* the latest call was get_actions_summary on a Document, and it returned
ActionsReturned ==
    result.op = "get_actions_summary" /\ result.kind = "return" /\ IsDocument

\* C10: the counts get_actions_summary returns for a Document sum to the
\* number of its records, the count of an action being the number of records
\* with that action, "unknown" for a record without action; no action is
\* listed twice; and a Document without records yields the empty mapping.
C10_ActionCountsSum ==
    ActionsReturned =>
        /\ CountSum(result.actions) = Len(Records)
        /\ \A a, b \in 1..Len(result.actions) :
              result.actions[a].key = result.actions[b].key => a = b
        /\ \A a \in 1..Len(result.actions) :
              result.actions[a].count
                 = Cardinality({i \in 1..Len(Records) :
                                   ActionOf(Records[i]) = result.actions[a].key})
        /\ Records = <<>> => result.actions = <<>>

\* C10 witness: get_actions_summary counted two records under one action and
\* a record without action under "unknown"
C10_Witness ==
    /\ ActionsReturned
    /\ Len(Records) = 3
    /\ Len(result.actions) = 2
    /\ \E a \in 1..2 :
          /\ result.actions[a].key = PyStr("unknown")
          /\ result.actions[a].count = 1
    /\ \E a \in 1..2 : result.actions[a].count = 2

\* the latest call was analyze_records on a Document, and it returned
StatsReturned ==
    result.op = "analyze_records" /\ result.kind = "return" /\ IsDocument

\* the record's is_strong_overwrite is the boolean true
StrongOverwrite(record) ==
    /\ HasKey(record, "is_strong_overwrite")
    /\ Get(record, "is_strong_overwrite", None).t = "bool"
    /\ Get(record, "is_strong_overwrite", None).s = "True"

\* C11: for a Document, analyze_records returns total = the number of records,
\* deletes = the number of records whose action is "delete", and
\* strong_overwrites = the number of records whose is_strong_overwrite is the
\* boolean true: the string "true", a number, false and an absent key do not
\* count.
C11_RecordStatsExact ==
    StatsReturned =>
        /\ result.stats.total = Len(Records)
        /\ result.stats.deletes
              = Cardinality({i \in 1..Len(Records) :
                                /\ HasKey(Records[i], "action")
                                /\ Get(Records[i], "action", None).t = "str"
                                /\ Get(Records[i], "action", None).s = "delete"})
        /\ result.stats.strong_overwrites
              = Cardinality({i \in 1..Len(Records) : StrongOverwrite(Records[i])})

\* C11 witness: analyze_records counted one strong overwrite among records
\* whose is_strong_overwrite is true, the string "true", a number and absent
C11_Witness ==
    /\ StatsReturned
    /\ result.stats.strong_overwrites = 1
    /\ result.stats.deletes = 2
    /\ \E i \in 1..Len(Records) :
          Get(Records[i], "is_strong_overwrite", None) = PyStr("true")
    /\ \E i \in 1..Len(Records) :
          Get(Records[i], "is_strong_overwrite", None) = PyInt7
    /\ \E i \in 1..Len(Records) : ~HasKey(Records[i], "is_strong_overwrite")
    /\ \E i \in 1..Len(Records) : StrongOverwrite(Records[i])

\* the archives of the round-trip law, each with the document it was made
\* from: one entry, a data entry, that holds zlib.compress of the document's
\* JSON text
RoundTrips ==
    {<<d, Zip(<<Entry(name_data, zlib_compress(dumps(d)))>>)>> : d \in Documents}

\* C12 (the claim as written): a call of load_data that finds self._data unset
\* and the file an archive of the round-trip law returns the document the
\* archive was made from.
C12_RoundTrip ==
    \A rt \in RoundTrips :
        (result.op = "load_data" /\ ~result.load.hit /\ result.load.file = rt[2])
            => /\ result.kind = "return"
               /\ result.val = rt[1]

\* every handle that the events open is released later, and nothing is done
\* to the archive after its release
Released(ev) ==
    /\ \A i \in 1..Len(ev) : ev[i] = "ZipFile" => \E j \in (i + 1)..Len(ev) : ev[j] = "close"
    /\ Cardinality({i \in 1..Len(ev) : ev[i] = "ZipFile"})
          = Cardinality({i \in 1..Len(ev) : ev[i] = "close"})
    /\ \A i \in 1..Len(ev) : ev[i] = "close" => i = Len(ev)

\* C13: whenever a call of load_data has returned or raised, the handle on the
\* archive that the call opened has been released, on every exit path: a
\* return, a missing data entry, a failed read, exhausted decompression, an
\* encoding or a parse failure, a file that is no archive.
C13_HandleReleased ==
    (result.op \in Methods \cup {"main"}) => Released(result.load.events)

\* C13 witness: load_data opened the archive, read the entry, failed in
\* _decompress_data, and the handle is released
C13_Witness ==
    /\ result.op = "load_data"
    /\ result.kind = "raise"
    /\ Exhausted
    /\ result.load.events = <<"exists", "ZipFile", "namelist", "read", "close">>
    /\ Released(result.load.events)

\* the attempts of the header guess in the order of the specification: zlib
\* inflate of the input after each of the four prefixes, then raw inflate of
\* the input without its first n - 5 bytes
HeaderAttempt(data, n) ==
    CASE n = 1 -> InflateZlib(data)
      [] n = 2 -> InflateZlib(<<120, 156>> \o data)
      [] n = 3 -> InflateZlib(<<120, 1>> \o data)
      [] n = 4 -> InflateZlib(<<120, 218>> \o data)
      [] OTHER -> InflateRaw(Drop(data, n - 5))

\* the first of the attempts 1..count that succeeds on data
FirstAttempt(data, count) ==
    CHOOSE n \in 1..count :
        /\ HeaderAttempt(data, n).ok
        /\ \A m \in 1..(n - 1) : ~HeaderAttempt(data, m).ok

\* the header guess of the latest call did what the first count attempts
\* prescribe: it succeeded exactly if one of them succeeds, with the output of
\* the first that does
HeaderGuessIs(count) ==
    /\ Tried[4].mark = "success" <=> \E n \in 1..count : HeaderAttempt(Input, n).ok
    /\ Tried[4].mark = "success"
          => result.load.decompressed_data
                = HeaderAttempt(Input, FirstAttempt(Input, count)).out

\* C14 (the claim as written): the header guess tries the four prefixes in
\* order and then raw inflate of the input without its first i bytes for
\* i = 0, 1, ..., min(10, len(data)), that bound included; it returns the
\* output of the first attempt that succeeds and fails only if all fail.
C14_HeaderGuessAsWritten ==
    Len(Tried) = 4 => HeaderGuessIs(4 + Min(10, Len(Input)) + 1)

\* C14 (amended): the header guess tries the four prefixes in order and then
\* raw inflate of the input without its first i bytes for
\* i = 0, 1, ..., min(10, len(data)) - 1; it returns the output of the first
\* attempt that succeeds and fails only if all of these fail.
C14_HeaderGuess ==
    Len(Tried) = 4 => HeaderGuessIs(4 + Min(10, Len(Input)))

\* C14 witness: the header guess failed with all four prefixes and at the
\* offsets 0..8, and succeeded at offset 9, the last it tries
C14_Witness ==
    /\ Len(Tried) = 4
    /\ Tried[4].mark = "success"
    /\ Len(Input) > 10
    /\ FirstAttempt(Input, 4 + Min(10, Len(Input))) = 14
    /\ result.load.decompressed_data = InflateRaw(Drop(Input, 9)).out

\* the latest call was a method of the analyzer whose call of load_data raised
FailedLoad == result.op \in Methods /\ result.load.kind = "raise"

\* C15: a call of load_data that raises, for whatever reason (missing file,
\* corrupt container, missing data entry, exhausted decompression, invalid
\* UTF-8, malformed JSON), leaves self._data unset, and the next call of a
\* method of the analyzer (a step that leaves the file alone and ends with the
\* result of a method) does not answer from the cache: it runs load_data again
\* from the file as it then is, starting with the test that the file exists.
C15_FailedLoadLeavesCacheUnset ==
    [][FailedLoad
          => /\ _data = None
             /\ result.load.cache = None
             /\ (result'.op \in Methods /\ file' = file)
                   => /\ ~result'.load.hit
                      /\ result'.load.file = file'
                      /\ result'.load.events # <<>>
                      /\ Head(result'.load.events) = "exists"
                      /\ result'.load.val \in {None} \cup Documents \cup NonMappings]_vars

\* C15 witness: load_data decompressed the entry and decoded the text, raised
\* because the text is no JSON, and the cache is unset
C15_Witness ==
    /\ FailedLoad
    /\ result.load.exc = MalformedDocumentError
    /\ Len(result.load.decompressed_data) > 0
    /\ \E i \in 1..Len(Tried) : Tried[i].mark = "success"
    /\ _data = None

====
